---- MODULE Spec2Model ----
(***************************************************************************)
(* Model of the Video PII Analyzer job service (server/api.py): the        *)
(* in-memory job table, the job management functions, the background       *)
(* analysis task and the HTTP handlers that drive them; and of the         *)
(* ensemble detection (server/video_pii_analyzer.py): the phone number     *)
(* patterns, the merge of overlapping entities and detect_pii.             *)
(***************************************************************************)
EXTENDS Integers, Sequences, FiniteSets, TLC

\* ------------------------------------------------------------------ bounds
\* Number of job ids (uuid4 values) the model draws from.
MaxJobs == 2
\* Largest value datetime.now() returns.
MaxClock == 1

\* Number of job ids the freely called job management functions are given.
MaxOpsJobs == 1

\* Number of job ids in the tables that are listed, and the largest limit and
\* offset a list call is given.
MaxListJobs == 3
MaxLimit == 2
MaxOffset == 2

\* Largest number of segments in a transcription given to the analysis.
MaxSegments == 2

\* Longest run of digits in the texts given to the phone heuristic.
MaxRun == 11

\* Largest number of raw spans handed to the merge, and largest number of
\* results converted from one model in a detect_pii call.
MaxRaw == 3
MaxConverted == 1

JobIds == 1 .. MaxJobs
OpsJobIds == 1 .. MaxOpsJobs
ListJobIds == 1 .. MaxListJobs

\* ------------------------------------------------------- Python values
\* Python's None; an optional value v that is present is the 1-tuple <<v>>.
None == <<>>
Some(v) == <<v>>

\* Truth value of `if error:` for an argument that is None or a str.
Truthy(error) == error # None /\ error # Some("")

\* A Python dict keeps its keys in insertion order: keys is that order, at
\* the mapping.
EmptyDict == [keys |-> <<>>, at |-> [k \in {} |-> None]]

DictHas(D, k) == k \in DOMAIN D.at

DictSet(D, k, v) ==
    [keys |-> IF DictHas(D, k) THEN D.keys ELSE Append(D.keys, k),
     at   |-> [x \in (DOMAIN D.at) \cup {k} |-> IF x = k THEN v ELSE D.at[x]]]

DictDel(D, k) ==
    [keys |-> SelectSeq(D.keys, LAMBDA x : x # k),
     at   |-> [x \in (DOMAIN D.at) \ {k} |-> D.at[x]]]

DictValues(D) == [i \in 1 .. Len(D.keys) |-> D.at[D.keys[i]]]

\* s[a:b] with Python's clamping of negative and out-of-range indices.
SliceIndex(i, n) ==
    IF i < 0 THEN (IF i + n < 0 THEN 0 ELSE i + n)
    ELSE (IF i > n THEN n ELSE i)

PySlice(s, a, b) ==
    LET lo == SliceIndex(a, Len(s))
        hi == SliceIndex(b, Len(s))
    IN  IF lo >= hi THEN <<>> ELSE SubSeq(s, lo + 1, hi)

\* list.sort(key=created_at, reverse=True): descending and stable (elements
\* with equal keys keep their relative order).
SortByCreatedDesc(s) ==
    LET n == Len(s)
        rank(i) == Cardinality({j \in 1 .. n : s[j].created_at > s[i].created_at})
                   + Cardinality({j \in 1 .. i : s[j].created_at = s[i].created_at})
    IN  [p \in 1 .. n |-> s[CHOOSE i \in 1 .. n : rank(i) = p]]

\* --------------------------------------------- job management functions
\* The temp file of the upload that got job id j, and the uploaded name.
TempFile(j) == j
OriginalName == "clip.mp4"

create_job(D, job_id, filename, original_filename, status, now) ==
    DictSet(D, job_id,
        [job_id            |-> job_id,
         status            |-> status,
         filename          |-> filename,
         original_filename |-> original_filename,
         created_at        |-> now,
         completed_at      |-> None,
         transcript        |-> "",
         pii_detected      |-> <<>>,
         pii_segments      |-> <<>>,
         summary           |-> [k \in {} |-> 0],
         error             |-> None])

\* An update that makes a record for an id the table does not hold.
update_job_status_upsert(D, job_id, status, error, now) ==
    LET D0 == IF DictHas(D, job_id) THEN D
              ELSE create_job(D, job_id, TempFile(job_id), OriginalName, status, now)
        j0 == D0.at[job_id]
        j1 == [j0 EXCEPT !.status = status]
        j2 == IF Truthy(error) THEN [j1 EXCEPT !.error = error] ELSE j1
        j3 == IF status \in {"completed", "failed"}
              THEN [j2 EXCEPT !.completed_at = Some(now)]
              ELSE j2
    IN  DictSet(D0, job_id, j3)

update_job_status(D, job_id, status, error, now) ==
    IF DictHas(D, job_id)
    THEN LET j0 == D.at[job_id]
             j1 == [j0 EXCEPT !.status = status]
             j2 == IF Truthy(error) THEN [j1 EXCEPT !.error = error] ELSE j1
             j3 == IF status \in {"completed", "failed"}
                   THEN [j2 EXCEPT !.completed_at = Some(now)]
                   ELSE j2
         IN  DictSet(D, job_id, j3)
    ELSE D

\* The first assignment of update_job_status alone (lines 93-94): the status
\* is written, error and completed_at are not yet.
update_job_status_first(D, job_id, status) ==
    IF DictHas(D, job_id)
    THEN DictSet(D, job_id, [D.at[job_id] EXCEPT !.status = status])
    ELSE D

\* update_job_results without the summary.
update_job_results_no_summary(D, job_id, transcript, pii_detected, pii_segments, summary, now) ==
    IF DictHas(D, job_id)
    THEN DictSet(D, job_id,
            [D.at[job_id] EXCEPT !.status       = "completed",
                                 !.transcript   = transcript,
                                 !.pii_detected = pii_detected,
                                 !.pii_segments = pii_segments,
                                 !.completed_at = Some(now)])
    ELSE D

\* An update that writes the results into every record of the table.
update_job_results_every_job(D, job_id, transcript, pii_detected, pii_segments, summary, now) ==
    IF DictHas(D, job_id)
    THEN [keys |-> D.keys,
          at   |-> [x \in DOMAIN D.at |->
                      [D.at[x] EXCEPT !.status       = "completed",
                                      !.transcript   = transcript,
                                      !.pii_detected = pii_detected,
                                      !.pii_segments = pii_segments,
                                      !.summary      = summary,
                                      !.completed_at = Some(now)]]]
    ELSE D

update_job_results(D, job_id, transcript, pii_detected, pii_segments, summary, now) ==
    IF DictHas(D, job_id)
    THEN DictSet(D, job_id,
            [D.at[job_id] EXCEPT !.status       = "completed",
                                 !.transcript   = transcript,
                                 !.pii_detected = pii_detected,
                                 !.pii_segments = pii_segments,
                                 !.summary      = summary,
                                 !.completed_at = Some(now)])
    ELSE D

get_job(D, job_id) == IF DictHas(D, job_id) THEN D.at[job_id] ELSE None

\* list_jobs without the sort: the jobs in the order the dict holds them.
list_jobs_unsorted(D, limit, offset) ==
    PySlice(DictValues(D), offset, offset + limit)

list_jobs(D, limit, offset) ==
    PySlice(SortByCreatedDesc(DictValues(D)), offset, offset + limit)

\* delete_job answering True whether or not the key was there.
delete_job_always_true(D, job_id) ==
    [storage |-> DictDel(D, job_id), result |-> TRUE]

\* delete_job returns a bool and changes the table: both are given here.
delete_job(D, job_id) ==
    IF DictHas(D, job_id)
    THEN [storage |-> DictDel(D, job_id), result |-> TRUE]
    ELSE [storage |-> D, result |-> FALSE]

\* ------------------------------------------------ analysis of one video
\* What model.transcribe and detect_pii yield for an uploaded file is input
\* to the job service: the transcript text, the report detect_pii returns on
\* it, and the provider's segments (times in whole seconds), each with the
\* report detect_pii returns on its stripped text.
PhoneEntity ==
    [type |-> "PHONE_NUMBER", text |-> "91234567", confidence |-> 90,
     start |-> 5, end |-> 13, model |-> "regex_phone"]

\* A silent recording, and one with a phone number in its one segment.
Transcriptions ==
    { [text |-> "", full_pii |-> <<>>, segments |-> <<>>],
      [text |-> "call 91234567", full_pii |-> << PhoneEntity >>,
       segments |-> << [start |-> 0, end |-> 61, text |-> "call 91234567",
                        pii |-> << PhoneEntity >>] >>] }

\* A recording with speech and nothing to report.
HelloTranscription ==
    [text |-> "hello", full_pii |-> <<>>,
     segments |-> << [start |-> 0, end |-> 61, text |-> "hello", pii |-> <<>>] >>]

\* str(e) of the exceptions the analysis can raise; an exception built
\* without a message (MemoryError(), a bare assert) has the empty string.
ExceptionStrings == {"", "Failed to load audio"}

\* f"{int(t//60)}:{int(t%60):02d}": the minutes and the two-digit seconds.
FormatTime(t) == <<t \div 60, t % 60>>

PiiTypes(pii) == {pii[i].type : i \in DOMAIN pii}

\* A summary that counts the items of the segment entries instead of those
\* of the full transcript.
Summarize_from_segments(full_pii, pii_segments) ==
    [total_pii_items      |-> Len(pii_segments),
     segments_with_pii    |-> Len(pii_segments),
     pii_types            |-> [t \in PiiTypes(full_pii) |->
                                 Cardinality({i \in DOMAIN full_pii : full_pii[i].type = t})],
     unique_pii_by_type   |-> [t \in PiiTypes(full_pii) |->
                                 {full_pii[i].text : i \in {k \in DOMAIN full_pii : full_pii[k].type = t}}],
     has_privacy_concerns |-> Len(full_pii) > 0]

Summarize(full_pii, pii_segments) ==
    [total_pii_items      |-> Len(full_pii),
     segments_with_pii    |-> Len(pii_segments),
     pii_types            |-> [t \in PiiTypes(full_pii) |->
                                 Cardinality({i \in DOMAIN full_pii : full_pii[i].type = t})],
     unique_pii_by_type   |-> [t \in PiiTypes(full_pii) |->
                                 {full_pii[i].text : i \in {k \in DOMAIN full_pii : full_pii[k].type = t}}],
     has_privacy_concerns |-> Len(full_pii) > 0]

SegmentEntry(segment) ==
    [timestamp |-> <<FormatTime(segment.start), FormatTime(segment.end)>>,
     text      |-> segment.text,
     pii       |-> segment.pii]

\* An analysis that makes an entry for every segment, with or without PII.
analyze_video_for_pii_api_every_segment(tr) ==
    LET pii_segments == [i \in 1 .. Len(tr.segments) |-> SegmentEntry(tr.segments[i])]
    IN  [transcript   |-> tr.text,
         pii_detected |-> tr.full_pii,
         pii_segments |-> pii_segments,
         summary      |-> Summarize(tr.full_pii, pii_segments)]

\* The dict analyze_video_for_pii_api returns for transcription tr.
analyze_video_for_pii_api(tr) ==
    LET kept         == SelectSeq(tr.segments, LAMBDA sg : sg.pii # <<>>)
        pii_segments == [i \in 1 .. Len(kept) |-> SegmentEntry(kept[i])]
    IN  [transcript   |-> tr.text,
         pii_detected |-> tr.full_pii,
         pii_segments |-> pii_segments,
         summary      |-> Summarize(tr.full_pii, pii_segments)]

AnalysisResults == {analyze_video_for_pii_api(tr) : tr \in Transcriptions}

\* The results a caller of update_job_results passes.
CompleteArguments == AnalysisResults \cup {analyze_video_for_pii_api(HelloTranscription)}

\* ------------------------------------------------- the ensemble detection
\* A text is the sequence of its characters, offsets count from 0 as in
\* Python, a confidence is in hundredths.
Digits == {"0", "1", "2", "3", "4", "5", "6", "7", "8", "9"}
Letters == {"a", "c", "e", "h", "l", "o"}
Spaces == {" "}
SgLead == {"6", "8", "9"}

\* \w of the re module, on the characters the sample texts use.
IsWord(c) == c \in Digits \cup Letters \cup {"_"}

\* \b at offset p: exactly one of the characters before and after p is a
\* word character (the ends of the text count as non-word).
AtBoundary(text, p) ==
    LET before == p > 0 /\ IsWord(text[p])
        after  == p < Len(text) /\ IsWord(text[p + 1])
    IN  before # after

\* The elements of a pattern: \b, one character of a set, and an optional
\* character of a set (greedy ?).
B == [kind |-> "b", chars |-> {}]
One(cs) == [kind |-> "one", chars |-> cs]
Opt(cs) == [kind |-> "opt", chars |-> cs]
D7 == [i \in 1 .. 7 |-> One(Digits)]

\* phone_patterns, in the order of the list.
phone_patterns ==
    << <<B, One({"8", "9"})>> \o D7 \o <<B>>,
       <<B, One({"6"})>> \o D7 \o <<B>>,
       <<One({"+"}), One({"6"}), One({"5"}), Opt(Spaces), One(SgLead)>> \o D7,
       <<One({"("}), One({"+"}), One({"6"}), One({"5"}), One({")"}), Opt(Spaces), One(SgLead)>> \o D7,
       <<B, One(Digits), One(Digits), One(Digits)>> \o D7 \o <<B>>,
       <<B, One(Digits)>> \o D7 \o <<B>>,
       <<B, One({"6"}), One({"5"}), One(SgLead)>> \o D7 \o <<B>> >>

\* The offset at which a match of pattern elements k.. ends when it begins at
\* offset p, or -1 when there is none (the regex engine's backtracking: an
\* optional character is taken first and given up if the rest fails).
RECURSIVE MatchFrom(_, _, _, _)
MatchFrom(pattern, k, text, p) ==
    IF k > Len(pattern) THEN p
    ELSE LET el   == pattern[k]
             here == p < Len(text) /\ text[p + 1] \in el.chars
         IN  CASE el.kind = "b" ->
                    IF AtBoundary(text, p) THEN MatchFrom(pattern, k + 1, text, p) ELSE -1
               [] el.kind = "one" ->
                    IF here THEN MatchFrom(pattern, k + 1, text, p + 1) ELSE -1
               [] el.kind = "opt" ->
                    LET taken == IF here THEN MatchFrom(pattern, k + 1, text, p + 1) ELSE -1
                    IN  IF taken # -1 THEN taken ELSE MatchFrom(pattern, k + 1, text, p)

\* re.finditer(pattern, text) from offset p on: the leftmost match, then the
\* matches after its end.
RECURSIVE finditer(_, _, _)
finditer(pattern, text, p) ==
    IF p > Len(text) THEN <<>>
    ELSE LET e == MatchFrom(pattern, 1, text, p)
         IN  IF e = -1 THEN finditer(pattern, text, p + 1)
             ELSE <<[start |-> p, end |-> e]>>
                  \o finditer(pattern, text, IF e > p THEN e ELSE p + 1)

\* A validation that accepts whatever a pattern matched.
is_valid_always(phone_num) == TRUE

\* A validation that looks at the digits of the match only, leaving out a
\* plus sign, brackets and spaces before it measures the length.
is_valid_sg_of_digits(phone_num) ==
    LET digits == SelectSeq(phone_num, LAMBDA c : c \in Digits)
    IN  IF Len(digits) = 8 THEN digits[1] \in SgLead
        ELSE IF Len(digits) = 10 /\ SubSeq(digits, 1, 2) = <<"6", "5">>
             THEN digits[3] \in SgLead
             ELSE Len(digits) = 10

\* The validation of one match (lines 73-81).
is_valid_sg(phone_num) ==
    IF Len(phone_num) = 8 THEN phone_num[1] \in SgLead
    ELSE IF Len(phone_num) = 10 /\ SubSeq(phone_num, 1, 2) = <<"6", "5">>
         THEN phone_num[3] \in SgLead
         ELSE Len(phone_num) = 10

RECURSIVE Concat(_)
Concat(ss) == IF ss = <<>> THEN <<>> ELSE Head(ss) \o Concat(Tail(ss))

\* A heuristic that applies the two generic patterns only (ten digits, eight
\* digits), and so reports every number once.
detect_phone_numbers_once(text) ==
    LET found(pattern) ==
            LET matches == finditer(pattern, text, 0)
                valid   == SelectSeq(matches,
                               LAMBDA m : is_valid_sg(SubSeq(text, m.start + 1, m.end)))
            IN  [i \in 1 .. Len(valid) |->
                    [type       |-> "PHONE_NUMBER",
                     text       |-> SubSeq(text, valid[i].start + 1, valid[i].end),
                     confidence |-> 90,
                     start      |-> valid[i].start,
                     end        |-> valid[i].end]]
    IN  found(phone_patterns[5]) \o found(phone_patterns[6])

detect_phone_numbers_in_stream(text) ==
    LET found(pattern) ==
            LET matches == finditer(pattern, text, 0)
                valid   == SelectSeq(matches,
                               LAMBDA m : is_valid_sg(SubSeq(text, m.start + 1, m.end)))
            IN  [i \in 1 .. Len(valid) |->
                    [type       |-> "PHONE_NUMBER",
                     text       |-> SubSeq(text, valid[i].start + 1, valid[i].end),
                     confidence |-> 90,
                     start      |-> valid[i].start,
                     end        |-> valid[i].end]]
    IN  Concat([k \in 1 .. Len(phone_patterns) |-> found(phone_patterns[k])])

\* A sort that leaves the list as it is.
KeepOrder(s) == s

\* entities.sort(key=start): ascending and stable.
SortByStart(s) ==
    LET n == Len(s)
        rank(i) == Cardinality({j \in 1 .. n : s[j].start < s[i].start})
                   + Cardinality({j \in 1 .. i : s[j].start = s[i].start})
    IN  [p \in 1 .. n |-> s[CHOOSE i \in 1 .. n : rank(i) = p]]

\* The choice of the first member, whatever the confidences.
first_entity(overlapping) == overlapping[1]

\* max(overlapping, key=confidence): the first of the members with the
\* highest confidence.
best_entity(overlapping) ==
    LET top == CHOOSE i \in DOMAIN overlapping :
                  /\ \A k \in DOMAIN overlapping :
                        overlapping[k].confidence <= overlapping[i].confidence
                  /\ \A k \in 1 .. i - 1 :
                        overlapping[k].confidence < overlapping[i].confidence
    IN  overlapping[top]

RECURSIVE SumConfidence(_)
SumConfidence(es) ==
    IF es = <<>> THEN 0 ELSE Head(es).confidence + SumConfidence(Tail(es))

\* The ensemble information written into the chosen entity; the average is
\* the quotient sum / count, kept as that pair.
Ensemble(best, overlapping) ==
    [ensemble_models         |-> [i \in DOMAIN overlapping |-> overlapping[i].model],
     ensemble_count          |-> Len(overlapping),
     ensemble_avg_confidence |-> <<SumConfidence(overlapping), Len(overlapping)>>]
    @@ best

\* A merge that writes the ensemble information for a group of one as well.
MergeGroup_always_ensemble(overlapping) ==
    Ensemble(best_entity(overlapping), overlapping)

\* Lines 157-169: what one group of overlapping entities adds to merged.
MergeGroup(overlapping) ==
    IF Len(overlapping) = 1
    THEN overlapping[1]
    ELSE Ensemble(best_entity(overlapping), overlapping)

\* A sweep that goes on from the entity after current, whatever the size of
\* the group it has just made.
RECURSIVE Sweep_from_next(_, _)
Sweep_from_next(entities, i) ==
    IF i > Len(entities) THEN <<>>
    ELSE LET current == entities[i]
             overlaps(next_entity) ==
                 next_entity.start < current.end /\ next_entity.end > current.start
             j == CHOOSE x \in i + 1 .. Len(entities) + 1 :
                     /\ \A y \in i + 1 .. x - 1 : overlaps(entities[y])
                     /\ x = Len(entities) + 1 \/ ~overlaps(entities[x])
         IN  <<MergeGroup(SubSeq(entities, i, j - 1))>> \o Sweep_from_next(entities, i + 1)

\* A sweep that lets an entity join the group when it starts before the
\* largest end of the group so far, whether or not it overlaps the first
\* entity of the group.
RECURSIVE Sweep_chained(_, _)
Sweep_chained(entities, i) ==
    IF i > Len(entities) THEN <<>>
    ELSE LET reach(x) == CHOOSE e \in {entities[y].end : y \in i .. x - 1} :
                            \A y \in i .. x - 1 : entities[y].end <= e
             j == CHOOSE x \in i + 1 .. Len(entities) + 1 :
                     /\ \A y \in i + 1 .. x - 1 : entities[y].start < reach(y)
                     /\ x = Len(entities) + 1 \/ ~(entities[x].start < reach(x))
         IN  <<MergeGroup(SubSeq(entities, i, j - 1))>> \o Sweep_chained(entities, j)

\* The while loop of merge_overlapping_entities from index i on (1-based):
\* current is entities[i], j stops at the first entity after it that does not
\* overlap current, and the loop goes on from j.
RECURSIVE Sweep(_, _)
Sweep(entities, i) ==
    IF i > Len(entities) THEN <<>>
    ELSE LET current == entities[i]
             overlaps(next_entity) ==
                 next_entity.start < current.end /\ next_entity.end > current.start
             j == CHOOSE x \in i + 1 .. Len(entities) + 1 :
                     /\ \A y \in i + 1 .. x - 1 : overlaps(entities[y])
                     /\ x = Len(entities) + 1 \/ ~overlaps(entities[x])
         IN  <<MergeGroup(SubSeq(entities, i, j - 1))>> \o Sweep(entities, j)

\* A merge that sweeps the entities in the order given.
merge_in_given_order(entities) == Sweep(entities, 1)

merge_overlapping_entities(entities) ==
    IF entities = <<>> THEN <<>> ELSE Sweep(SortByStart(entities), 1)

\* Lines 123-129 of detect_pii: the merge of all_pii_found, sorted by start.
merged_pii(all_pii_found) == SortByStart(merge_overlapping_entities(all_pii_found))

\* The registered models, in the order of the models dict, and a label each
\* of them gives.
model_names == <<"stanford_aimi", "bert_ner", "isotonic_deberta">>
EntityGroup(model_name) ==
    CASE model_name = "stanford_aimi"    -> "PATIENT"
      [] model_name = "bert_ner"         -> "PER"
      [] model_name = "isotonic_deberta" -> "FIRSTNAME"

\* One model's part of a detect_pii call: the entities converted and appended
\* inside its try block, and whether the block then raised (in the pipeline
\* call, with nothing converted, or in the conversion of a later result).
\* all_pii_found after the loop over the models holds what was appended.
appended(runs) == Concat([k \in 1 .. Len(model_names) |-> runs[model_names[k]].converted])

tag_regex_phone(phone_matches) ==
    [i \in DOMAIN phone_matches |-> [model |-> "regex_phone"] @@ phone_matches[i]]

detect_pii(text, runs) ==
    merged_pii(appended(runs) \o tag_regex_phone(detect_phone_numbers_in_stream(text)))

\* analyze_text's summary (lines 348-360).
TextSummary(pii_detected) ==
    [total_pii_items      |-> Len(pii_detected),
     pii_types            |-> [t \in PiiTypes(pii_detected) |->
                                 Cardinality({i \in DOMAIN pii_detected : pii_detected[i].type = t})],
     unique_pii_by_type   |-> [t \in PiiTypes(pii_detected) |->
                                 {pii_detected[i].text :
                                     i \in {k \in DOMAIN pii_detected : pii_detected[k].type = t}}],
     has_privacy_concerns |-> Len(pii_detected) > 0]

\* ------------------------------------------------------------------ state
VARIABLES
    jobs_storage,   \* the module-level dict of jobs
    clock,          \* the value datetime.now() returned last
    issued,         \* job ids create_job_id has returned
    files,          \* each upload's temp file: "none", "exists", "unlinked"
    unlink_calls,   \* number of os.unlink calls on each temp file
    pc,             \* position of each job's background task
    outcome,        \* what the analysis of each task returned or raised
    running,        \* the task holding the event loop, 0 when it is idle
    response        \* the call just made and what it returned

vars == <<jobs_storage, clock, issued, files, unlink_calls, pc, outcome,
          running, response>>

task_vars == <<issued, files, unlink_calls, pc, outcome, running>>

\* A call and its answer: the operation, the job id and the other arguments
\* passed, the HTTP status (0 for a plain function call) and what came back.
\* The answer of a handler is held until the event loop runs something else.
Reply(op, id, args, code, body) ==
    [op |-> op, id |-> id, args |-> args, code |-> code, body |-> body]

NoReply == Reply("none", 0, None, 0, None)

Init ==
    /\ jobs_storage = EmptyDict
    /\ clock = 0
    /\ issued = {}
    /\ files = [j \in JobIds |-> "none"]
    /\ unlink_calls = [j \in JobIds |-> 0]
    /\ pc = [j \in JobIds |-> "none"]
    /\ outcome = [j \in JobIds |-> None]
    /\ running = 0
    /\ response = NoReply

\* datetime.now(): a read of the wall clock returns the value of the last read
\* or a later one; a step that reads nothing leaves the clock as it is.
datetime_now(reads) == IF reads THEN clock .. MaxClock ELSE {clock}

\* ------------------------------------------------------- HTTP handlers
\* A generator that hands out an id already in use.
create_job_id_reused(used) == 1

\* uuid4 returns an id never returned before; which id is immaterial, so the
\* ids are taken in order (MaxJobs + 1, no job id, once all are used).
create_job_id(used) ==
    CHOOSE j \in JobIds \cup {MaxJobs + 1} :
        j \notin used /\ \A k \in 1 .. j - 1 : k \in used

\* Every handler is a coroutine on the server's one event loop, and so is the
\* background task, which awaits nothing: a handler runs only while no task
\* holds the loop.
\* POST /analyze/video with a content type that is neither video nor audio.
analyze_video_rejected ==
    /\ running = 0
    /\ response' = Reply("analyze_video", 0, None, 400, None)
    /\ UNCHANGED <<jobs_storage, clock, task_vars>>

\* POST /analyze/video: a fresh job id, the upload saved to a temp file, the
\* job created as queued and the background task added.
analyze_video(j) ==
    /\ running = 0
    /\ j = create_job_id(issued)
    /\ issued' = issued \cup {j}
    /\ files' = [files EXCEPT ![j] = "exists"]
    /\ \E now \in datetime_now(TRUE) :
          /\ jobs_storage' = create_job(jobs_storage, j, TempFile(j), OriginalName, "queued", now)
          /\ clock' = now
    /\ pc' = [pc EXCEPT ![j] = "scheduled"]
    /\ response' = Reply("analyze_video", j, None, 200, "queued")
    /\ UNCHANGED <<unlink_calls, outcome, running>>

\* POST /analyze/video when reading or saving the upload raises: the temp
\* file is removed, no job is created and no task is added.
analyze_video_error(j) ==
    /\ running = 0
    /\ j = create_job_id(issued)
    /\ issued' = issued \cup {j}
    /\ files' = [files EXCEPT ![j] = "unlinked"]
    /\ unlink_calls' = [unlink_calls EXCEPT ![j] = @ + 1]
    /\ response' = Reply("analyze_video", j, None, 500, None)
    /\ UNCHANGED <<jobs_storage, clock, pc, outcome, running>>

\* GET /jobs/{job_id} served off the event loop (as a handler declared with a
\* plain def is, in a worker thread): it runs whether or not a task is running.
get_analysis_result_off_loop(job_id) ==
    /\ LET result == get_job(jobs_storage, job_id)
       IN  response' = IF result = None
                       THEN Reply("get", job_id, None, 404, None)
                       ELSE Reply("get", job_id, None, 200, result)
    /\ UNCHANGED <<jobs_storage, clock, task_vars>>

\* GET /jobs/{job_id}
get_analysis_result(job_id) ==
    /\ running = 0
    /\ LET result == get_job(jobs_storage, job_id)
       IN  response' = IF result = None
                       THEN Reply("get", job_id, None, 404, None)
                       ELSE Reply("get", job_id, None, 200, result)
    /\ UNCHANGED <<jobs_storage, clock, task_vars>>

\* GET /jobs, with the handler's default limit and offset.
DefaultLimit == 50
DefaultOffset == 0

list_jobs_endpoint(limit, offset) ==
    /\ running = 0
    /\ response' = Reply("list", 0, <<limit, offset>>, 200,
                         [jobs   |-> list_jobs(jobs_storage, limit, offset),
                          total  |-> Len(jobs_storage.keys),
                          limit  |-> limit,
                          offset |-> offset])
    /\ UNCHANGED <<jobs_storage, clock, task_vars>>

\* DELETE /jobs/{job_id}
delete_job_endpoint(job_id) ==
    /\ running = 0
    /\ LET deleted == delete_job(jobs_storage, job_id)
       IN  /\ jobs_storage' = deleted.storage
           /\ response' = IF deleted.result
                          THEN Reply("delete", job_id, None, 200, TRUE)
                          ELSE Reply("delete", job_id, None, 404, FALSE)
    /\ UNCHANGED <<clock, task_vars>>

\* --------------------------------------------------- the background task
\* analyze_video_async, lines 184-186: the task takes the event loop and
\* sets the job to processing.
analyze_video_async_start(j) ==
    /\ running = 0
    /\ pc[j] = "scheduled"
    /\ running' = j
    /\ jobs_storage' = update_job_status(jobs_storage, j, "processing", None, clock)
    /\ pc' = [pc EXCEPT ![j] = "analyzing"]
    /\ response' = NoReply
    /\ UNCHANGED <<clock, issued, files, unlink_calls, outcome>>

\* Lines 189-192: the analysis returns a result or raises.
analyze_video_async_analyze(j) ==
    /\ running = j
    /\ pc[j] = "analyzing"
    /\ IF files[j] # "exists"
       THEN outcome' = [outcome EXCEPT ![j] =
                           [kind |-> "raise", value |-> "Video file not found"]]
       ELSE \/ \E result \in AnalysisResults :
                 outcome' = [outcome EXCEPT ![j] = [kind |-> "return", value |-> result]]
            \/ \E e \in ExceptionStrings :
                 outcome' = [outcome EXCEPT ![j] = [kind |-> "raise", value |-> e]]
    /\ pc' = [pc EXCEPT ![j] = "analyzed"]
    /\ UNCHANGED <<jobs_storage, clock, issued, files, unlink_calls, running, response>>

\* The task with an except clause that catches only the missing-file error:
\* any other exception leaves the job as it is.
analyze_video_async_record_uncaught(j) ==
    /\ running = j
    /\ pc[j] = "analyzed"
    /\ IF outcome[j].kind = "return"
       THEN /\ \E now \in datetime_now(DictHas(jobs_storage, j)) :
                  /\ jobs_storage' = update_job_results(jobs_storage, j,
                                                        outcome[j].value.transcript,
                                                        outcome[j].value.pii_detected,
                                                        outcome[j].value.pii_segments,
                                                        outcome[j].value.summary, now)
                  /\ clock' = now
            /\ pc' = [pc EXCEPT ![j] = "finally"]
       ELSE IF outcome[j].value = "Video file not found"
            THEN /\ jobs_storage' = update_job_status_first(jobs_storage, j, "failed")
                 /\ pc' = [pc EXCEPT ![j] = "failing"]
                 /\ UNCHANGED clock
            ELSE /\ pc' = [pc EXCEPT ![j] = "finally"]
                 /\ UNCHANGED <<jobs_storage, clock>>
    /\ UNCHANGED <<issued, files, unlink_calls, outcome, running, response>>

\* Lines 195-207. The results are written by one dict.update call (its
\* argument, the time included, is built first). A failure is recorded by
\* update_job_status in three assignments: this step is the first of them.
analyze_video_async_record(j) ==
    /\ running = j
    /\ pc[j] = "analyzed"
    /\ IF outcome[j].kind = "return"
       THEN /\ \E now \in datetime_now(DictHas(jobs_storage, j)) :
                  /\ jobs_storage' = update_job_results(jobs_storage, j,
                                                        outcome[j].value.transcript,
                                                        outcome[j].value.pii_detected,
                                                        outcome[j].value.pii_segments,
                                                        outcome[j].value.summary, now)
                  /\ clock' = now
            /\ pc' = [pc EXCEPT ![j] = "finally"]
       ELSE /\ jobs_storage' = update_job_status_first(jobs_storage, j, "failed")
            /\ pc' = [pc EXCEPT ![j] = "failing"]
            /\ UNCHANGED clock
    /\ UNCHANGED <<issued, files, unlink_calls, outcome, running, response>>

\* Lines 95-98 of update_job_status(job_id, "failed", str(e)): the error, if
\* it is truthy, and completed_at are written; with the status written by
\* the step before, the job is as the whole function leaves it.
analyze_video_async_record_failed(j) ==
    /\ running = j
    /\ pc[j] = "failing"
    /\ \E now \in datetime_now(DictHas(jobs_storage, j)) :
          /\ jobs_storage' = update_job_status(jobs_storage, j, "failed",
                                               Some(outcome[j].value), now)
          /\ clock' = now
    /\ pc' = [pc EXCEPT ![j] = "finally"]
    /\ UNCHANGED <<issued, files, unlink_calls, outcome, running, response>>

\* A cleanup that finds the temp file through the job record, and so skips
\* the file of a job that has been deleted.
analyze_video_async_finally_by_record(j) ==
    /\ running = j
    /\ pc[j] = "finally"
    /\ IF files[j] = "exists" /\ DictHas(jobs_storage, j)
       THEN /\ files' = [files EXCEPT ![j] = "unlinked"]
            /\ unlink_calls' = [unlink_calls EXCEPT ![j] = @ + 1]
       ELSE UNCHANGED <<files, unlink_calls>>
    /\ pc' = [pc EXCEPT ![j] = "done"]
    /\ outcome' = [outcome EXCEPT ![j] = None]
    /\ running' = 0
    /\ UNCHANGED <<jobs_storage, clock, issued, response>>

\* Lines 208-211: the temp file is removed if it exists, and the task ends.
analyze_video_async_finally(j) ==
    /\ running = j
    /\ pc[j] = "finally"
    /\ IF files[j] = "exists"
       THEN /\ files' = [files EXCEPT ![j] = "unlinked"]
            /\ unlink_calls' = [unlink_calls EXCEPT ![j] = @ + 1]
       ELSE UNCHANGED <<files, unlink_calls>>
    /\ pc' = [pc EXCEPT ![j] = "done"]
    /\ outcome' = [outcome EXCEPT ![j] = None]
    /\ running' = 0
    /\ UNCHANGED <<jobs_storage, clock, issued, response>>

TaskStep(j) ==
    \/ analyze_video_async_start(j)
    \/ analyze_video_async_analyze(j)
    \/ analyze_video_async_record(j)
    \/ analyze_video_async_record_failed(j)
    \/ analyze_video_async_finally(j)

Next ==
    \/ analyze_video_rejected
    \/ \E j \in JobIds : analyze_video(j)
    \/ \E j \in JobIds : analyze_video_error(j)
    \/ \E j \in JobIds : get_analysis_result(j)
    \/ list_jobs_endpoint(DefaultLimit, DefaultOffset)
    \/ \E j \in JobIds : delete_job_endpoint(j)
    \/ \E j \in JobIds : TaskStep(j)

Spec == Init /\ [][Next]_vars

\* The event loop runs every task that is ready: a scheduled or running
\* background task is not postponed forever.
FairSpec == Spec /\ \A j \in JobIds : WF_vars(TaskStep(j))

\* ------------------------------ the job management functions, called freely
\* The Job Lifecycle Manager's operations in any order on any id: create is
\* create_job, transition_to_processing is update_job_status(id, "processing"),
\* complete is update_job_results, fail is update_job_status(id, "failed", e).
Call_create_job(id) ==
    /\ \E now \in datetime_now(TRUE) :
          /\ jobs_storage' = create_job(jobs_storage, id, TempFile(id), OriginalName, "queued", now)
          /\ clock' = now
    /\ response' = Reply("create", id, None, 0, None)
    /\ UNCHANGED task_vars

Call_transition_to_processing(id) ==
    /\ jobs_storage' = update_job_status(jobs_storage, id, "processing", None, clock)
    /\ response' = Reply("transition_to_processing", id, None, 0, None)
    /\ UNCHANGED <<clock, task_vars>>

Call_complete(id, result) ==
    /\ \E now \in datetime_now(DictHas(jobs_storage, id)) :
          /\ jobs_storage' = update_job_results(jobs_storage, id, result.transcript,
                                                result.pii_detected, result.pii_segments,
                                                result.summary, now)
          /\ clock' = now
    /\ response' = Reply("complete", id, result, 0, None)
    /\ UNCHANGED task_vars

Call_fail(id, e) ==
    /\ \E now \in datetime_now(DictHas(jobs_storage, id)) :
          /\ jobs_storage' = update_job_status(jobs_storage, id, "failed", Some(e), now)
          /\ clock' = now
    /\ response' = Reply("fail", id, Some(e), 0, None)
    /\ UNCHANGED task_vars

Call_get_job(id) ==
    /\ response' = Reply("get", id, None, 0, get_job(jobs_storage, id))
    /\ UNCHANGED <<jobs_storage, clock, task_vars>>

Call_delete_job(id) ==
    /\ LET deleted == delete_job(jobs_storage, id)
       IN  /\ jobs_storage' = deleted.storage
           /\ response' = Reply("delete", id, None, 0, deleted.result)
    /\ UNCHANGED <<clock, task_vars>>

OpsNext ==
    \/ \E id \in OpsJobIds : Call_create_job(id)
    \/ \E id \in OpsJobIds : Call_transition_to_processing(id)
    \/ \E id \in OpsJobIds, result \in CompleteArguments : Call_complete(id, result)
    \/ \E id \in OpsJobIds, e \in ExceptionStrings : Call_fail(id, e)
    \/ \E id \in OpsJobIds : Call_get_job(id)
    \/ \E id \in OpsJobIds : Call_delete_job(id)

OpsSpec == Init /\ [][OpsNext]_vars

\* ------------------------------------------------- list_jobs, called freely
\* list_jobs on every table that creates and deletes build, with any limit and
\* offset (the handler passes on whatever integers the query holds).
Call_list_jobs(limit, offset) ==
    /\ response' = Reply("list_jobs", 0, <<limit, offset>>, 0,
                         list_jobs(jobs_storage, limit, offset))
    /\ UNCHANGED <<jobs_storage, clock, task_vars>>

ListNext ==
    \/ \E id \in ListJobIds : Call_create_job(id)
    \/ \E id \in ListJobIds : Call_delete_job(id)
    \/ \E limit \in -1 .. MaxLimit, offset \in -1 .. MaxOffset : Call_list_jobs(limit, offset)

ListSpec == Init /\ [][ListNext]_vars

\* A call that has been made and has not returned yet.
Pending(op, args) == Reply(op, 0, args, -1, None)

\* The job service as it is after construction, with one call pending.
InitWith(calls) ==
    /\ jobs_storage = EmptyDict
    /\ clock = 0
    /\ issued = {}
    /\ files = [j \in JobIds |-> "none"]
    /\ unlink_calls = [j \in JobIds |-> 0]
    /\ pc = [j \in JobIds |-> "none"]
    /\ outcome = [j \in JobIds |-> None]
    /\ running = 0
    /\ response \in calls

\* ------------------------------------------- the merge of given raw spans
\* The raw entities all_pii_found holds after the detectors have run: spans
\* over a text of nine characters, among them the spans [0,5) and [2,8), a
\* span nested in another, and adjacent spans; the score of a model is 0.6 or
\* 0.9 and that of the phone heuristic 0.9. The text of an entity is named by
\* its offsets.
Spans == {<<0, 5>>, <<2, 8>>, <<5, 8>>, <<8, 9>>}
Scores == {60, 90}

RawEntities(source) ==
    IF source = "regex_phone"
    THEN {[type |-> "PHONE_NUMBER", text |-> sp, confidence |-> 90,
           start |-> sp[1], end |-> sp[2], model |-> "regex_phone"] : sp \in Spans}
    ELSE {[type |-> EntityGroup(source), text |-> sp, confidence |-> c,
           start |-> sp[1], end |-> sp[2], model |-> source] : sp \in Spans, c \in Scores}

\* The sources in the order detect_pii appends their entities.
Sources == model_names \o <<"regex_phone">>
SourceIndex(source) == CHOOSE i \in DOMAIN Sources : Sources[i] = source

RawSequences ==
    LET all == UNION {RawEntities(Sources[i]) : i \in DOMAIN Sources}
    IN  {raw \in UNION {[1 .. n -> all] : n \in 0 .. MaxRaw} :
            \A a, b \in DOMAIN raw :
                a < b => SourceIndex(raw[a].model) <= SourceIndex(raw[b].model)}

Call_merged_pii ==
    /\ response.op = "merged_pii"
    /\ response.code = -1
    /\ response' = Reply("merged_pii", 0, response.args, 0, merged_pii(response.args))
    /\ UNCHANGED <<jobs_storage, clock, task_vars>>

MergeInit == InitWith({Pending("merged_pii", raw) : raw \in RawSequences})

MergeNext == Call_merged_pii

MergeSpec == MergeInit /\ [][MergeNext]_vars

\* ------------------------------------------ detect_pii and analyze_text
\* The texts analysed: an empty one, one without and one with a phone number.
SampleTexts ==
    { <<>>,
      <<"h", "e", "l", "l", "o">>,
      <<"c", "a", "l", "l", " ", "9", "1", "2", "3", "4", "5", "6", "7">> }

\* What a model may report on a text: its first four characters or its
\* characters 5..12, as far as the text goes, with a score of 0.6.
ModelEntities(model_name, text) ==
    {[type |-> EntityGroup(model_name), text |-> SubSeq(text, sp[1] + 1, sp[2]),
      confidence |-> 60, start |-> sp[1], end |-> sp[2], model |-> model_name] :
         sp \in {x \in {<<0, 4>>, <<5, 13>>} : x[2] <= Len(text)}}

\* The ways the try block of one model can go.
ModelRuns(model_name, text) ==
    [converted : UNION {[1 .. n -> ModelEntities(model_name, text)] : n \in 0 .. MaxConverted},
     raised    : BOOLEAN]

DetectCalls ==
    {Pending(op, [text |-> text,
                  runs |-> [stanford_aimi |-> r1, bert_ner |-> r2, isotonic_deberta |-> r3]]) :
        op \in {"detect_pii", "analyze_text"},
        text \in SampleTexts,
        r1 \in UNION {ModelRuns("stanford_aimi", t) : t \in SampleTexts},
        r2 \in UNION {ModelRuns("bert_ner", t) : t \in SampleTexts},
        r3 \in UNION {ModelRuns("isotonic_deberta", t) : t \in SampleTexts}}

\* Every model's entities are entities of the text of the call.
DetectInit ==
    /\ InitWith(DetectCalls)
    /\ \A k \in DOMAIN model_names :
          response.args.runs[model_names[k]]
              \in ModelRuns(model_names[k], response.args.text)

Call_detect_pii ==
    /\ response.op = "detect_pii"
    /\ response.code = -1
    /\ response' = Reply("detect_pii", 0, response.args, 0,
                         detect_pii(response.args.text, response.args.runs))
    /\ UNCHANGED <<jobs_storage, clock, task_vars>>

\* POST /analyze/text
analyze_text ==
    /\ response.op = "analyze_text"
    /\ response.code = -1
    /\ LET pii_detected == detect_pii(response.args.text, response.args.runs)
       IN  response' = Reply("analyze_text", 0, response.args, 200,
                             [pii_detected |-> pii_detected,
                              summary      |-> TextSummary(pii_detected)])
    /\ UNCHANGED <<jobs_storage, clock, task_vars>>

DetectNext ==
    \/ Call_detect_pii
    \/ analyze_text

DetectSpec == DetectInit /\ [][DetectNext]_vars

\* ------------------------------------------------- the phone heuristic
\* The texts given to the heuristic: a run of digits of every length from 7
\* to MaxRun, its first three digits of every class the patterns and the
\* validation tell apart, after nothing, a word, a plus sign, a country
\* prefix in each of its forms or a letter, and before nothing, a letter or a
\* second number; and the texts the tests name.
LeadDigits == {"1", "5", "6", "8", "9"}

DigitRun(d1, d2, d3, n) == <<d1, d2, d3>> \o [i \in 1 .. n - 3 |-> "0"]

PhonePrefixes ==
    { <<>>,
      <<"c", "a", "l", "l", " ">>,
      <<"+">>,
      <<"+", "6", "5">>,
      <<"+", "6", "5", " ">>,
      <<"(", "+", "6", "5", ")">>,
      <<"a">> }

PhoneSuffixes ==
    { <<>>,
      <<"a">>,
      <<" ", "6", "1", "2", "3", "4", "5", "6", "7">> }

Text91234567 == <<"9", "1", "2", "3", "4", "5", "6", "7">>
Text12345678 == <<"1", "2", "3", "4", "5", "6", "7", "8">>
TextPlus6598765432 == <<"+", "6", "5", "9", "8", "7", "6", "5", "4", "3", "2">>

PhoneTexts ==
    {pre \o DigitRun(d1, d2, d3, n) \o suf :
        pre \in PhonePrefixes, suf \in PhoneSuffixes,
        d1 \in LeadDigits, d2 \in LeadDigits, d3 \in LeadDigits, n \in 7 .. MaxRun}
    \cup {<<>>, Text91234567, Text12345678, TextPlus6598765432}

\* A detect_pii call in which no model reports anything.
NoRuns ==
    [stanford_aimi    |-> [converted |-> <<>>, raised |-> FALSE],
     bert_ner         |-> [converted |-> <<>>, raised |-> FALSE],
     isotonic_deberta |-> [converted |-> <<>>, raised |-> FALSE]]

PhoneInit ==
    InitWith({Pending("detect_phone_numbers_in_stream", [text |-> text]) : text \in PhoneTexts}
             \cup {Pending("detect_pii", [text |-> text, runs |-> NoRuns]) : text \in PhoneTexts})

Call_detect_phone_numbers_in_stream ==
    /\ response.op = "detect_phone_numbers_in_stream"
    /\ response.code = -1
    /\ response' = Reply("detect_phone_numbers_in_stream", 0, response.args, 0,
                         detect_phone_numbers_in_stream(response.args.text))
    /\ UNCHANGED <<jobs_storage, clock, task_vars>>

PhoneNext ==
    \/ Call_detect_phone_numbers_in_stream
    \/ Call_detect_pii

PhoneSpec == PhoneInit /\ [][PhoneNext]_vars

\* ------------------------------------------ the analysis of a transcription
\* str.strip() of a text whose only whitespace is the space.
RECURSIVE lstrip(_)
lstrip(s) == IF s # <<>> /\ Head(s) \in Spaces THEN lstrip(Tail(s)) ELSE s

RECURSIVE rstrip(_)
rstrip(s) == IF s # <<>> /\ s[Len(s)] \in Spaces THEN rstrip(SubSeq(s, 1, Len(s) - 1)) ELSE s

strip(s) == rstrip(lstrip(s))

\* The texts of the segments of a transcription: silence, speech without
\* PII, speech with a phone number, a phone number alone.
SegmentTexts ==
    { <<>>,
      <<" ", "h", "e", "l", "l", "o">>,
      <<" ", "c", "a", "l", "l", " ", "9", "1", "2", "3", "4", "5", "6", "7">>,
      <<" ", "6", "1", "2", "3", "4", "5", "6", "7", " ">> }

\* The detect_pii calls of the analysis: no model reports anything, or
\* bert_ner reports the first four characters of the text as a person.
AnalyzeRuns(text) ==
    {NoRuns} \cup
    {[NoRuns EXCEPT !.bert_ner.converted = <<e>>] :
        e \in {x \in ModelEntities("bert_ner", text) : x.start = 0}}

\* Segment i of a transcription covers seconds 45 (i - 1) to 45 i.
SegmentsOf(texts) ==
    LET all_runs == UNION {AnalyzeRuns(strip(t)) : t \in SegmentTexts}
    IN  {[i \in 1 .. Len(texts) |->
            [start |-> 45 * (i - 1), end |-> 45 * i, text |-> texts[i], runs |-> rs[i]]] :
         rs \in {f \in [1 .. Len(texts) -> all_runs] :
                    \A i \in 1 .. Len(texts) : f[i] \in AnalyzeRuns(strip(texts[i]))}}

\* What model.transcribe returns: the text of the recording and its
\* segments, each with the behaviour of the models on it.
WhisperResults ==
    UNION {{[text |-> Concat(texts), segments |-> sg, runs |-> r] :
               sg \in SegmentsOf(texts), r \in AnalyzeRuns(Concat(texts))} :
           texts \in UNION {[1 .. n -> SegmentTexts] : n \in 0 .. MaxSegments}}

\* The detect_pii calls of analyze_video_for_pii_api: one on the full
\* transcript (line 232) and one on the stripped text of each segment
\* (lines 240-241).
detected(result) ==
    [text     |-> result.text,
     full_pii |-> detect_pii(result.text, result.runs),
     segments |-> [i \in DOMAIN result.segments |->
                     LET segment      == result.segments[i]
                         segment_text == strip(segment.text)
                     IN  [start |-> segment.start, end |-> segment.end,
                          text  |-> segment_text,
                          pii   |-> detect_pii(segment_text, segment.runs)]]]

AnalyzeCalls ==
    {Pending("analyze_video_for_pii_api", result) : result \in WhisperResults}
    \cup {Pending("analyze_text", [text |-> text, runs |-> runs]) :
             text \in SegmentTexts, runs \in UNION {AnalyzeRuns(t) : t \in SegmentTexts}}

AnalyzeInit ==
    /\ InitWith(AnalyzeCalls)
    /\ response.op = "analyze_text"
          => response.args.runs \in AnalyzeRuns(response.args.text)

Call_analyze_video_for_pii_api ==
    /\ response.op = "analyze_video_for_pii_api"
    /\ response.code = -1
    /\ response' = Reply("analyze_video_for_pii_api", 0, response.args, 0,
                         analyze_video_for_pii_api(detected(response.args)))
    /\ UNCHANGED <<jobs_storage, clock, task_vars>>

AnalyzeNext ==
    \/ Call_analyze_video_for_pii_api
    \/ analyze_text

AnalyzeSpec == AnalyzeInit /\ [][AnalyzeNext]_vars

\* ================================================================ claims
Terminal == {"completed", "failed"}

\* The status of job j in the table, "absent" when the table has no such key.
JobStatus(j) == IF DictHas(jobs_storage, j) THEN jobs_storage.at[j].status ELSE "absent"

HasResults(job) ==
    \/ job.transcript # ""
    \/ job.pii_detected # <<>>
    \/ job.pii_segments # <<>>
    \/ job.summary # [k \in {} |-> 0]

\* C1: once a job's status is completed or failed, no step of the system (a
\* step of any background task, an upload, a get, a list) changes that
\* status; the record leaves the terminal state only by being deleted, and
\* only the delete handler for that id does that.
C1_TerminalStatusIsFinal ==
    [][\A j \in JobIds :
          JobStatus(j) \in Terminal
          => \/ JobStatus(j)' = JobStatus(j)
             \/ JobStatus(j)' = "absent" /\ delete_job_endpoint(j)]_vars

\* A failed job that was polled after a later job was created, analysed and
\* completed.
C1_Witness ==
    \E j, k \in JobIds :
        /\ JobStatus(j) = "failed"
        /\ JobStatus(k) = "completed"
        /\ pc[j] = "done" /\ pc[k] = "done"
        /\ jobs_storage.at[j].completed_at # None
        /\ jobs_storage.at[k].created_at > jobs_storage.at[j].completed_at[1]
        /\ response.op = "get" /\ response.id = j /\ response.code = 200
        /\ response.body.status = "failed"

\* C2: under fair scheduling of the background tasks, every job that is in
\* processing is eventually completed or failed or its record is gone; and a
\* job in processing never goes back to queued.
C2_ProcessingReachesTerminal ==
    /\ \A j \in JobIds :
          (JobStatus(j) = "processing") ~> (JobStatus(j) \in Terminal \cup {"absent"})
    /\ [][\A j \in JobIds : JobStatus(j) = "processing" => JobStatus(j)' # "queued"]_vars

\* A job in processing whose analysis has just raised.
C2_Witness ==
    \E j \in JobIds :
        /\ JobStatus(j) = "processing"
        /\ pc[j] = "analyzed"
        /\ outcome[j].kind = "raise"

\* C3: the temp file of every upload is unlinked at most once; it still
\* exists, never unlinked, until the analysis of its task is over and the
\* outcome recorded; and once the task has ended it has been unlinked exactly
\* once, whether the job completed, failed or was deleted meanwhile.
C3_FileReleasedExactlyOnce ==
    \A j \in JobIds :
        /\ unlink_calls[j] <= 1
        /\ pc[j] \in {"scheduled", "analyzing", "analyzed", "failing", "finally"}
              => files[j] = "exists" /\ unlink_calls[j] = 0
        /\ pc[j] = "done" => files[j] = "unlinked" /\ unlink_calls[j] = 1

\* One task ended with its job failed and its file unlinked once, while
\* another task is at its cleanup for a job whose record was deleted before
\* the task started.
C3_Witness ==
    \E j, k \in JobIds :
        /\ pc[j] = "done" /\ JobStatus(j) = "failed" /\ unlink_calls[j] = 1
        /\ pc[k] = "finally" /\ JobStatus(k) = "absent" /\ files[k] = "exists"

\* C4: create leaves the job queued with completed_at and error null and no
\* results; transition_to_processing on an existing job leaves its status
\* processing; complete on an existing job makes get return status completed,
\* completed_at set, exactly the transcript, reports and summary passed, and
\* error unset when it was unset before (as it is after create and
\* transition_to_processing); after delete, get returns not-found. Every step
\* is a call, which response names with its arguments.
C4_LifecycleEndToEnd ==
    [][LET call   == response'
           id     == call.id
           got    == get_job(jobs_storage', id)
           before == get_job(jobs_storage, id)
       IN  /\ call.op = "create"
              => /\ got # None
                 /\ got.status = "queued"
                 /\ got.completed_at = None
                 /\ got.error = None
                 /\ ~HasResults(got)
           /\ (call.op = "transition_to_processing" /\ before # None)
              => got # None /\ got.status = "processing"
           /\ (call.op = "complete" /\ before # None)
              => /\ got # None
                 /\ got.status = "completed"
                 /\ got.completed_at # None
                 /\ got.transcript = call.args.transcript
                 /\ got.pii_detected = call.args.pii_detected
                 /\ got.pii_segments = call.args.pii_segments
                 /\ got.summary = call.args.summary
                 /\ (before.error = None => got.error = None)
           /\ call.op = "delete" => got = None]_vars

\* get has returned a completed job with its results, completed_at set and
\* error unset.
C4_Witness ==
    /\ response.op = "get"
    /\ response.body # None
    /\ response.body.status = "completed"
    /\ response.body.completed_at # None
    /\ response.body.error = None
    /\ response.body.pii_detected # <<>>

\* C5: a create on an id the table already holds leaves the table as it was.
C5_DuplicateCreateLeavesJob ==
    [][\A id \in OpsJobIds :
          (Call_create_job(id) /\ DictHas(jobs_storage, id))
          => jobs_storage' = jobs_storage]_vars

\* C6: every job with status failed has a non-null error.
C6_FailedHasError ==
    \A j \in JobIds :
        JobStatus(j) = "failed" => jobs_storage.at[j].error # None

\* C7: a job's error is non-null only if its status is failed.
C7_ErrorOnlyIfFailed ==
    \A id \in OpsJobIds :
        (DictHas(jobs_storage, id) /\ jobs_storage.at[id].error # None)
        => JobStatus(id) = "failed"

\* C8: a job's transcript, reports and summary are non-empty only if its
\* status is completed.
C8_ResultsOnlyIfCompleted ==
    \A id \in OpsJobIds :
        (DictHas(jobs_storage, id) /\ HasResults(jobs_storage.at[id]))
        => JobStatus(id) = "completed"

\* C9: a job's completed_at is non-null exactly when its status is completed
\* or failed.
C9_CompletedAtIffTerminal ==
    \A id \in OpsJobIds :
        DictHas(jobs_storage, id)
        => (jobs_storage.at[id].completed_at # None <=> JobStatus(id) \in Terminal)

\* C10: a get of an id the table does not hold answers not-found and a delete
\* of such an id answers false, and neither changes the table; a delete of an
\* id the table holds answers true, removes that key and leaves every other
\* job, and the order of the other keys, as they were.
C10_UnknownIdAndDelete ==
    [][\A id \in JobIds :
          /\ (get_analysis_result(id) /\ ~DictHas(jobs_storage, id))
             => /\ response'.code = 404 /\ response'.body = None
                /\ jobs_storage' = jobs_storage
          /\ (delete_job_endpoint(id) /\ ~DictHas(jobs_storage, id))
             => /\ response'.code = 404 /\ response'.body = FALSE
                /\ jobs_storage' = jobs_storage
          /\ (delete_job_endpoint(id) /\ DictHas(jobs_storage, id))
             => /\ response'.code = 200 /\ response'.body = TRUE
                /\ DOMAIN jobs_storage'.at = (DOMAIN jobs_storage.at) \ {id}
                /\ \A k \in DOMAIN jobs_storage'.at : jobs_storage'.at[k] = jobs_storage.at[k]
                /\ jobs_storage'.keys = SelectSeq(jobs_storage.keys, LAMBDA x : x # id)]_vars

\* A delete has answered true and removed its job while another job is still
\* in the table.
C10_Witness ==
    /\ response.op = "delete" /\ response.code = 200 /\ response.body = TRUE
    /\ ~DictHas(jobs_storage, response.id)
    /\ \E k \in JobIds : DictHas(jobs_storage, k)

\* The number of jobs of table D that come before job k when the newest comes
\* first and, of two jobs created at the same time, the one the table has held
\* longer.
NewerThan(D, k) ==
    LET at(id) == D.at[id].created_at
        index(id) == CHOOSE i \in DOMAIN D.keys : D.keys[i] = id
    IN  Cardinality({a \in DOMAIN D.at :
                        \/ at(a) > at(k)
                        \/ at(a) = at(k) /\ index(a) < index(k)})

\* C11: the jobs a list call returns are ordered newest-created first (of any
\* two, the earlier one was not created before the later one); and for a
\* non-negative limit and offset they are exactly the jobs at positions
\* offset .. offset+limit-1 of that ordering of the whole table, so there are
\* never more than limit of them.
C11_ListNewestFirstWindow ==
    response.op = "list_jobs"
    => LET limit  == response.args[1]
           offset == response.args[2]
           jobs   == response.body
           n      == Len(jobs_storage.keys)
           rest   == IF n > offset THEN n - offset ELSE 0
       IN  /\ \A i, k \in DOMAIN jobs : i < k => jobs[i].created_at >= jobs[k].created_at
           /\ (limit >= 0 /\ offset >= 0)
              => /\ Len(jobs) <= limit
                 /\ Len(jobs) = IF limit < rest THEN limit ELSE rest
                 /\ \A i \in DOMAIN jobs :
                       /\ DictHas(jobs_storage, jobs[i].job_id)
                       /\ jobs[i] = jobs_storage.at[jobs[i].job_id]
                       /\ NewerThan(jobs_storage, jobs[i].job_id) = offset + i - 1

\* A list with offset 1 and limit 2 of a table of three jobs, not all created
\* at the same time, has returned two jobs.
C11_Witness ==
    /\ response.op = "list_jobs"
    /\ response.args = <<2, 1>>
    /\ Len(jobs_storage.keys) = 3
    /\ Len(response.body) = 2
    /\ response.body[1].created_at > response.body[2].created_at

\* A job record caught between the assignments of one transition: completed
\* without completed_at or without its results (the summary of an analysis is
\* never the empty dict), or failed without completed_at.
PartiallyUpdated(job) ==
    \/ /\ job.status = "completed"
       /\ (job.completed_at = None \/ job.summary = [k \in {} |-> 0])
    \/ /\ job.status = "failed"
       /\ job.completed_at = None

\* C12: no get and no list, whatever pipelines are in flight, returns a
\* partially updated job (completed with completed_at null or without
\* results, failed with completed_at null); the table holds such a record
\* only while the task that is writing it holds the event loop.
C12_NoPartialSnapshot ==
    /\ (response.op = "get" /\ response.code = 200)
          => ~PartiallyUpdated(response.body)
    /\ response.op = "list"
          => \A i \in DOMAIN response.body.jobs : ~PartiallyUpdated(response.body.jobs[i])
    /\ \A j \in JobIds :
          (DictHas(jobs_storage, j) /\ PartiallyUpdated(jobs_storage.at[j]))
          => running = j /\ pc[j] = "failing"

\* A list has returned a failed job, whole, while the pipeline of another
\* job is waiting to run.
C12_Witness ==
    /\ response.op = "list"
    /\ \E i \in DOMAIN response.body.jobs :
          /\ response.body.jobs[i].status = "failed"
          /\ response.body.jobs[i].completed_at # None
    /\ \E k \in JobIds : pc[k] = "scheduled" /\ JobStatus(k) = "queued"

\* C13: while one job is in processing, the pipeline of another job that is
\* queued and scheduled can start, which is what makes a state with two jobs
\* in processing reachable.
C13_SecondPipelineCanStart ==
    \A j, k \in JobIds :
        (j # k /\ JobStatus(j) = "processing" /\ JobStatus(k) = "queued" /\ pc[k] = "scheduled")
        => ENABLED analyze_video_async_start(k)

\* C14: a poll of a job that is in processing is served at that point (and
\* returns the snapshot with status processing and empty results).
C14_PollServedWhileProcessing ==
    \A j \in JobIds :
        JobStatus(j) = "processing" => ENABLED get_analysis_result(j)

\* C15: when the analysis of a job raises, the job (if the table still holds
\* it) ends failed with error and completed_at set and no transcript, reports
\* or summary written, and the uploaded file is deleted by the end of the task.
C15_TranscriptionFailureRecorded ==
    \A j \in JobIds :
        /\ (pc[j] = "finally" /\ outcome[j].kind = "raise" /\ DictHas(jobs_storage, j))
           => /\ jobs_storage.at[j].status = "failed"
              /\ jobs_storage.at[j].error # None
              /\ jobs_storage.at[j].completed_at # None
              /\ ~HasResults(jobs_storage.at[j])
        /\ (pc[j] = "done" /\ JobStatus(j) = "failed")
           => files[j] = "unlinked" /\ unlink_calls[j] = 1

\* ---------------------------------------------------- claims on the merge
EnsembleFields == {"ensemble_models", "ensemble_count", "ensemble_avg_confidence"}

\* The raw span a report entity was made from: the entity without its
\* ensemble information.
RawOf(entity) == [f \in (DOMAIN entity) \ EnsembleFields |-> entity[f]]

\* Two spans share a character.
Intersect(a, b) == a.start < b.end /\ b.start < a.end

\* The clusters of a start-sorted sequence: the first span is the anchor of
\* the first cluster, which takes the spans after it up to the first one that
\* does not intersect the anchor; the clusters of the rest follow.
RECURSIVE Clusters(_)
Clusters(sorted) ==
    IF sorted = <<>> THEN <<>>
    ELSE LET joining == {n \in 0 .. Len(sorted) - 1 :
                            \A i \in 2 .. n + 1 : Intersect(sorted[i], sorted[1])}
             size    == 1 + CHOOSE n \in joining :
                               n = Len(sorted) - 1 \/ ~Intersect(sorted[n + 2], sorted[1])
         IN  <<SubSeq(sorted, 1, size)>> \o Clusters(SubSeq(sorted, size + 1, Len(sorted)))

\* A merge call that has returned.
Merged == response.op = "merged_pii" /\ response.code = 0

\* C16: the report is sorted ascending by start, and two of its entities
\* with equal start stand in the order in which their raw spans were detected.
C16_ReportSortedByStart ==
    Merged
    => LET raw    == response.args
           report == response.body
       IN  \A i, k \in DOMAIN report :
               i < k
               => /\ report[i].start <= report[k].start
                  /\ report[i].start = report[k].start
                     => \E a, b \in DOMAIN raw :
                           a < b /\ raw[a] = RawOf(report[i]) /\ raw[b] = RawOf(report[k])

\* Three raw spans detected in descending order of start have come back as
\* a report of three entities.
C16_Witness ==
    /\ Merged
    /\ Len(response.args) = 3
    /\ response.args[1].start > response.args[2].start
    /\ response.args[2].start > response.args[3].start
    /\ Len(response.body) = 3

\* C17: when no two raw spans overlap, the report consists of exactly the
\* raw spans, each once and unchanged in every field, and none of its
\* entities carries ensemble information.
C17_NonOverlappingUnchanged ==
    (Merged /\ \A a, b \in DOMAIN response.args :
                  a # b => ~Intersect(response.args[a], response.args[b]))
    => LET raw    == response.args
           report == response.body
       IN  /\ Len(report) = Len(raw)
           /\ \A a \in DOMAIN raw :
                 Cardinality({i \in DOMAIN report : report[i] = raw[a]}) = 1
           /\ \A i \in DOMAIN report : (DOMAIN report[i]) \cap EnsembleFields = {}

\* Three spans of one detector, no two overlapping and not detected in the
\* order of their starts, have been merged.
C17_Witness ==
    /\ Merged
    /\ Len(response.args) = 3
    /\ \A a, b \in DOMAIN response.args :
          /\ response.args[a].model = "bert_ner"
          /\ a # b => ~Intersect(response.args[a], response.args[b])
    /\ response.args[1].start > response.args[2].start

\* C18: the report has one entity per cluster of the start-sorted raw spans,
\* in the order of the clusters; for a cluster of more than one span that
\* entity is the member with the highest confidence (the first such member
\* of the sorted sequence) in kind, text, offsets, confidence and source, its
\* agreement count is the size of the cluster, its contributing sources are
\* the members' sources in the order of the sorted sequence, and its average
\* confidence times the size is the sum of the members' confidences.
C18_ClusterRepresentative ==
    Merged
    => LET report   == response.body
           clusters == Clusters(SortByStart(response.args))
       IN  /\ Len(report) = Len(clusters)
           /\ \A c \in DOMAIN clusters :
                 LET members == clusters[c]
                     top     == CHOOSE i \in DOMAIN members :
                                   /\ \A k \in DOMAIN members :
                                         members[k].confidence <= members[i].confidence
                                   /\ \A k \in 1 .. i - 1 :
                                         members[k].confidence # members[i].confidence
                     entity  == report[c]
                 IN  Len(members) > 1
                     => /\ RawOf(entity) = members[top]
                        /\ entity.ensemble_count = Len(members)
                        /\ entity.ensemble_models = [i \in DOMAIN members |-> members[i].model]
                        /\ entity.ensemble_avg_confidence[2] = Len(members)
                        /\ entity.ensemble_avg_confidence[1] = SumConfidence(members)

\* The spans [0,5) with confidence 0.6 from one model and [2,8) with
\* confidence 0.9 from another have come back as one entity: the second
\* span, with count 2, both sources and the average 150/2 = 0.75.
C18_Witness ==
    /\ Merged
    /\ Len(response.args) = 2
    /\ response.args[1].model = "stanford_aimi" /\ response.args[1].confidence = 60
    /\ response.args[1].start = 0 /\ response.args[1].end = 5
    /\ response.args[2].model = "bert_ner" /\ response.args[2].confidence = 90
    /\ response.args[2].start = 2 /\ response.args[2].end = 8
    /\ Len(response.body) = 1
    /\ RawOf(response.body[1]) = response.args[2]
    /\ response.body[1].ensemble_count = 2
    /\ response.body[1].ensemble_models = <<"stanford_aimi", "bert_ner">>
    /\ response.body[1].ensemble_avg_confidence = <<150, 2>>

\* Three raw spans A, B, C in the order of their starts: A overlaps B, B
\* overlaps C, A does not overlap C.
IsChain(sorted) ==
    /\ Len(sorted) = 3
    /\ Intersect(sorted[1], sorted[2])
    /\ Intersect(sorted[2], sorted[3])
    /\ ~Intersect(sorted[1], sorted[3])

C25_AgreementCountDistinctSources ==
    Merged
    => LET report   == response.body
           clusters == Clusters(SortByStart(response.args))
       IN  \A c \in DOMAIN report :
               ("ensemble_count" \in DOMAIN report[c] /\ report[c].ensemble_count > 1)
               => /\ Cardinality({report[c].ensemble_models[i] :
                                     i \in DOMAIN report[c].ensemble_models})
                        = report[c].ensemble_count
                  /\ \A k \in DOMAIN clusters[c] : Intersect(clusters[c][k], report[c])

\* C26: no two entities of the report have intersecting intervals.
C26_ReportDeduplicated ==
    Merged
    => \A i, k \in DOMAIN response.body :
           i # k => ~Intersect(response.body[i], response.body[k])

\* C29: what merge_overlapping_entities returns is already ascending in
\* start, also when the representative of a cluster starts after the
\* cluster's anchor, so the sort that follows leaves it as it is.
C29_SweepAlreadySorted ==
    Merged
    => LET merged == merge_overlapping_entities(response.args)
       IN  /\ \A i, k \in DOMAIN merged : i < k => merged[i].start <= merged[k].start
           /\ response.body = merged

\* A representative that starts after its anchor, followed by the entity of
\* a later cluster: [0,5) with confidence 0.6 and [2,8) with 0.9 give the
\* entity [2,8), and another entity comes after it.
C29_Witness ==
    /\ Merged
    /\ Len(response.body) = 2
    /\ "ensemble_count" \in DOMAIN response.body[1]
    /\ response.body[1].start = 2
    /\ \E a \in DOMAIN response.args : response.args[a].start = 0
    /\ response.body[2].start = 8

\* The agreement count of a report entity: 1 when it carries no ensemble
\* information.
AgreementCount(entity) ==
    IF "ensemble_count" \in DOMAIN entity THEN entity.ensemble_count ELSE 1

RECURSIVE SumAgreement(_)
SumAgreement(report) ==
    IF report = <<>> THEN 0 ELSE AgreementCount(Head(report)) + SumAgreement(Tail(report))

\* C32: the sweep partitions the raw spans. The agreement counts of the
\* report add up to the number of raw spans, and, cut into consecutive runs
\* of those sizes, the start-sorted raw spans give for every entity a run
\* whose members all intersect its first span, which holds the span the
\* entity was made from and whose sources are the entity's contributing
\* sources.
C32_SweepPartitions ==
    Merged
    => LET report   == response.body
           sorted   == SortByStart(response.args)
           first(c) == 1 + SumAgreement(SubSeq(report, 1, c - 1))
           last(c)  == SumAgreement(SubSeq(report, 1, c))
       IN  /\ SumAgreement(report) = Len(response.args)
           /\ \A c \in DOMAIN report :
                 /\ first(c) <= last(c)
                 /\ \A m \in first(c) .. last(c) : Intersect(sorted[m], sorted[first(c)])
                 /\ \E m \in first(c) .. last(c) : sorted[m] = RawOf(report[c])
                 /\ AgreementCount(report[c]) > 1
                    => report[c].ensemble_models
                          = [k \in 1 .. AgreementCount(report[c]) |->
                                sorted[first(c) + k - 1].model]

\* Three raw spans have come back as a single entity followed by the entity
\* of a cluster of two.
C32_Witness ==
    /\ Merged
    /\ Len(response.args) = 3
    /\ Len(response.body) = 2
    /\ (DOMAIN response.body[1]) \cap EnsembleFields = {}
    /\ response.body[2].ensemble_count = 2

\* ------------------------------------------------ claims on the detection
\* The runs with model m contributing nothing.
Without(runs, m) == [runs EXCEPT ![m].converted = <<>>]

\* C19: when the try block of a model raises, at whatever point, the report
\* detect_pii returns is the one computed without any span of that model.
C19_FailedDetectorContributesNothing ==
    (response.op = "detect_pii" /\ response.code = 0)
    => \A k \in DOMAIN model_names :
          response.args.runs[model_names[k]].raised
          => response.body = detect_pii(response.args.text,
                                        Without(response.args.runs, model_names[k]))

\* C20: when the try block of every model raises, analyze_text answers 200
\* with the report made of the phone heuristic's spans alone, which is empty,
\* with total_pii_items 0 and has_privacy_concerns false, when the text holds
\* no phone number.
C20_AllDetectorsFailed ==
    (/\ response.op = "analyze_text"
     /\ response.code # -1
     /\ \A k \in DOMAIN model_names : response.args.runs[model_names[k]].raised)
    => LET phones == tag_regex_phone(detect_phone_numbers_in_stream(response.args.text))
       IN  /\ response.code = 200
           /\ response.body.pii_detected = merged_pii(phones)
           /\ phones = <<>>
              => /\ response.body.pii_detected = <<>>
                 /\ response.body.summary.total_pii_items = 0
                 /\ response.body.summary.has_privacy_concerns = FALSE

\* ------------------------------------------- claims on the phone heuristic
\* A call of the phone heuristic that has returned.
PhoneAnswered == response.op = "detect_phone_numbers_in_stream" /\ response.code = 0

\* The offsets at which a run of exactly eight digits stands alone in a
\* text: no word character before it and none after it.
StandaloneRuns(text) ==
    {a \in 0 .. Len(text) - 8 :
        /\ \A i \in a + 1 .. a + 8 : text[i] \in Digits
        /\ a = 0 \/ ~IsWord(text[a])
        /\ a + 8 = Len(text) \/ ~IsWord(text[a + 9])}

\* C21: a standalone run of eight digits is returned as a phone span exactly
\* when its first digit is 6, 8 or 9; so "91234567" gives a span and
\* "12345678" none; "+6598765432" gives at least one span; the empty text
\* gives none.
C21_PhoneValidation ==
    PhoneAnswered
    => LET text  == response.args.text
           spans == response.body
       IN  /\ \A a \in StandaloneRuns(text) :
                 (\E i \in DOMAIN spans : spans[i].start = a /\ spans[i].end = a + 8)
                 <=> text[a + 1] \in {"6", "8", "9"}
           /\ text = Text91234567
                 => \E i \in DOMAIN spans : spans[i].text = Text91234567
           /\ text = Text12345678 => spans = <<>>
           /\ text = TextPlus6598765432 => spans # <<>>
           /\ text = <<>> => spans = <<>>

\* The heuristic has returned a span for "+6598765432".
C21_Witness ==
    /\ PhoneAnswered
    /\ response.args.text = TextPlus6598765432
    /\ \E i \in DOMAIN response.body :
          response.body[i].start = 1 /\ response.body[i].end = 11

\* The offsets of the matches of pattern k in a text that pass the
\* validation.
ValidMatches(k, text) ==
    LET ms == finditer(phone_patterns[k], text, 0)
    IN  {<<ms[i].start, ms[i].end>> :
            i \in {x \in DOMAIN ms : is_valid_sg(SubSeq(text, ms[x].start + 1, ms[x].end))}}

Offsets(spans) == {<<spans[i].start, spans[i].end>> : i \in DOMAIN spans}

\* C28: the heuristic returns one span for every pattern and match that
\* passes the validation, so a number k patterns match comes back as k spans
\* of the same offsets, each with confidence 0.9; and the report made from
\* them has that number once, as a single entity.
C28_PhoneSpansNotDeduplicated ==
    /\ PhoneAnswered
         => LET text  == response.args.text
                spans == response.body
                per   == [k \in DOMAIN phone_patterns |-> ValidMatches(k, text)]
            IN  /\ \A i \in DOMAIN spans : spans[i].confidence = 90
                /\ \A o \in Offsets(spans) \cup UNION {per[k] : k \in DOMAIN per} :
                      Cardinality({i \in DOMAIN spans :
                                      spans[i].start = o[1] /\ spans[i].end = o[2]})
                      = Cardinality({k \in DOMAIN per : o \in per[k]})
    /\ (response.op = "detect_pii" /\ response.code = 0 /\ response.args.runs = NoRuns)
         => LET spans  == detect_phone_numbers_in_stream(response.args.text)
                report == response.body
            IN  /\ Len(report) = Cardinality(Offsets(spans))
                /\ \A o \in Offsets(spans) :
                      LET k == Cardinality({i \in DOMAIN spans :
                                               spans[i].start = o[1] /\ spans[i].end = o[2]})
                      IN  \E i \in DOMAIN report :
                              /\ report[i].start = o[1] /\ report[i].end = o[2]
                              /\ report[i].confidence = 90
                              /\ report[i].model = "regex_phone"
                              /\ IF k = 1
                                 THEN (DOMAIN report[i]) \cap EnsembleFields = {}
                                 ELSE report[i].ensemble_count = k

\* The heuristic returns "91234567" twice, from the mobile pattern and from
\* the generic 8-digit pattern, and the report has it once.
C28_Witness ==
    /\ response.op = "detect_pii" /\ response.code = 0
    /\ response.args.text = Text91234567
    /\ LET spans == detect_phone_numbers_in_stream(Text91234567)
       IN  /\ Len(spans) = 2
           /\ spans[1] = spans[2]
           /\ ValidMatches(1, Text91234567) = {<<0, 8>>}
           /\ ValidMatches(6, Text91234567) = {<<0, 8>>}
    /\ Len(response.body) = 1
    /\ response.body[1].ensemble_count = 2

\* The offsets at which a run of exactly n digits stands alone in a text.
StandaloneRunsOf(text, n) ==
    {a \in 0 .. Len(text) - n :
        /\ \A i \in a + 1 .. a + n : text[i] \in Digits
        /\ a = 0 \/ ~IsWord(text[a])
        /\ a + n = Len(text) \/ ~IsWord(text[a + n + 1])}

\* The matches of the two international-prefixed patterns in a text.
PrefixedMatches(text) ==
    LET m3 == finditer(phone_patterns[3], text, 0)
        m4 == finditer(phone_patterns[4], text, 0)
    IN  {m3[i] : i \in DOMAIN m3} \cup {m4[i] : i \in DOMAIN m4}

\* C34: every span the heuristic returns has a text of exactly 8 or exactly
\* 10 characters, all of them digits, which is the text at its offsets; a
\* standalone run of ten digits is returned unless it begins with 65 and its
\* third digit is not 6, 8 or 9; and no match of a pattern with the
\* international prefix is itself returned.
C34_PhoneSpansAreDigitRuns ==
    PhoneAnswered
    => LET text  == response.args.text
           spans == response.body
       IN  /\ \A i \in DOMAIN spans :
                 /\ Len(spans[i].text) \in {8, 10}
                 /\ \A c \in DOMAIN spans[i].text : spans[i].text[c] \in Digits
                 /\ spans[i].text = SubSeq(text, spans[i].start + 1, spans[i].end)
           /\ \A a \in StandaloneRunsOf(text, 10) :
                 (\E i \in DOMAIN spans : spans[i].start = a /\ spans[i].end = a + 10)
                 <=> ~(/\ SubSeq(text, a + 1, a + 2) = <<"6", "5">>
                       /\ text[a + 3] \notin {"6", "8", "9"})
           /\ \A m \in PrefixedMatches(text) :
                 ~\E i \in DOMAIN spans : spans[i].start = m.start /\ spans[i].end = m.end

\* The text "(+65)" and eight digits led by 6, 8 or 9 is matched by the
\* bracketed international pattern, and the heuristic has returned the eight
\* digits alone.
C34_Witness ==
    /\ PhoneAnswered
    /\ Len(response.args.text) = 13
    /\ SubSeq(response.args.text, 1, 5) = <<"(", "+", "6", "5", ")">>
    /\ \E m \in PrefixedMatches(response.args.text) : m.start = 0 /\ m.end = 13
    /\ \E i \in DOMAIN response.body :
          response.body[i].start = 5 /\ response.body[i].end = 13

\* ------------------------------------------------- claims on the analysis
\* An analysis of a transcription that has returned.
Analyzed == response.op = "analyze_video_for_pii_api" /\ response.code = 0

\* The report of segment i of a transcription.
OwnReport(result, i) ==
    detect_pii(strip(result.segments[i].text), result.segments[i].runs)

\* The segments of a transcription whose own report is not empty.
Reported(result) == {i \in DOMAIN result.segments : OwnReport(result, i) # <<>>}

\* The k-th of them, in the order of the transcription.
NthReported(result, k) ==
    CHOOSE i \in Reported(result) : Cardinality({j \in Reported(result) : j < i}) = k - 1

\* C22: the segment reports are exactly the segments whose own report is
\* not empty, in the order of the transcription, each with its stripped
\* text, its times and its report; and the full report is the report of the
\* full transcript, whatever the segments are.
C22_SegmentReports ==
    Analyzed
    => LET result  == response.args
           reports == response.body.pii_segments
       IN  /\ Len(reports) = Cardinality(Reported(result))
           /\ \A k \in DOMAIN reports :
                 LET i == NthReported(result, k)
                 IN  /\ reports[k].text = strip(result.segments[i].text)
                     /\ reports[k].pii = OwnReport(result, i)
                     /\ reports[k].timestamp =
                            <<FormatTime(result.segments[i].start),
                              FormatTime(result.segments[i].end)>>
           /\ response.body.pii_detected = detect_pii(result.text, result.runs)
           /\ response.body.transcript = result.text

\* An analysis has left out the first of two segments and kept the second,
\* and its full report has an entity.
C22_Witness ==
    /\ Analyzed
    /\ Len(response.args.segments) = 2
    /\ Reported(response.args) = {2}
    /\ Len(response.body.pii_segments) = 1
    /\ response.body.pii_detected # <<>>

\* The sum of the values of a dict of counts.
RECURSIVE SumValues(_)
SumValues(counts) ==
    IF DOMAIN counts = {} THEN 0
    ELSE LET t == CHOOSE x \in DOMAIN counts : TRUE
         IN  counts[t] + SumValues([x \in DOMAIN counts \ {t} |-> counts[x]])

\* The fields every summary has, against the full report it was made for.
SummaryOf(summary, report) ==
    /\ summary.total_pii_items = Len(report)
    /\ DOMAIN summary.pii_types = {report[i].type : i \in DOMAIN report}
    /\ \A t \in DOMAIN summary.pii_types :
          summary.pii_types[t] = Cardinality({i \in DOMAIN report : report[i].type = t})
    /\ SumValues(summary.pii_types) = summary.total_pii_items
    /\ DOMAIN summary.unique_pii_by_type = DOMAIN summary.pii_types
    /\ \A t \in DOMAIN summary.unique_pii_by_type :
          summary.unique_pii_by_type[t] =
              {report[i].text : i \in {k \in DOMAIN report : report[k].type = t}}
    /\ summary.has_privacy_concerns = (summary.total_pii_items > 0)

\* C23: the summary counts the entities of the full report, counts them by
\* kind (the counts add up to the total), holds the distinct texts of each
\* kind, raises the privacy flag exactly when the total is positive and, for
\* a video, counts the entries of the segment reports.
C23_SummaryDerivation ==
    /\ Analyzed
         => /\ SummaryOf(response.body.summary, response.body.pii_detected)
            /\ response.body.summary.segments_with_pii = Len(response.body.pii_segments)
    /\ response.op = "analyze_text" /\ response.code = 200
         => SummaryOf(response.body.summary, response.body.pii_detected)

\* An analysis has returned a full report of two phone numbers and a person,
\* and a summary that counts three items.
C23_Witness ==
    /\ Analyzed
    /\ response.body.summary.total_pii_items = 3
    /\ response.body.summary.pii_types = [PHONE_NUMBER |-> 2, PER |-> 1]
    /\ response.body.summary.has_privacy_concerns
    /\ response.body.summary.segments_with_pii = 2

\* C33: in the result of a video analysis, a positive segments_with_pii
\* comes with has_privacy_concerns true.
C33_SegmentsImplyPrivacyConcerns ==
    Analyzed
    => (response.body.summary.segments_with_pii > 0
        => response.body.summary.has_privacy_concerns)

\* ------------------------------------------- claims on the job operations
\* C27: a job becomes processing only from queued, a completed or failed job
\* is never set back to processing, and transition_to_processing on an id
\* the table does not hold changes nothing.
C27_ProcessingOnlyFromQueued ==
    [][\A id \in OpsJobIds :
          /\ (JobStatus(id) # "processing" /\ JobStatus(id)' = "processing")
             => JobStatus(id) = "queued"
          /\ JobStatus(id) \in Terminal => JobStatus(id)' # "processing"
          /\ (Call_transition_to_processing(id) /\ ~DictHas(jobs_storage, id))
             => jobs_storage' = jobs_storage]_vars

\* C30: a job that was deleted is never resurrected. Once an issued id is
\* gone from the table no step brings it back; the steps of its background
\* task (set processing, write results, record failure, clean up) leave the
\* table, and so every other job, as it was; a get of the id answers
\* not-found.
C30_DeletedNeverResurrected ==
    [][\A j \in JobIds :
          (j \in issued /\ ~DictHas(jobs_storage, j))
          => /\ ~DictHas(jobs_storage', j)
             /\ TaskStep(j) => jobs_storage' = jobs_storage
             /\ get_analysis_result(j)
                => response'.code = 404 /\ jobs_storage' = jobs_storage]_vars

\* The task of a job that was deleted while queued has set processing,
\* analysed and recorded its outcome, and the table has no record of the job
\* while it holds another job.
C30_Witness ==
    \E j \in JobIds :
        /\ pc[j] = "finally"
        /\ j \in issued
        /\ ~DictHas(jobs_storage, j)
        /\ \E k \in JobIds \ {j} : DictHas(jobs_storage, k)

\* C31: a step of the background task of job a leaves job b, for every other
\* id b, as it was: present or absent as before, and with every field of its
\* record unchanged; and as long as a job is in the table its job_id (the
\* key it is stored under) and its created_at stay what they were.
C31_PipelineWritesOwnJobOnly ==
    [][\A a, b \in JobIds :
          /\ (a # b /\ TaskStep(a))
             => /\ DictHas(jobs_storage', b) <=> DictHas(jobs_storage, b)
                /\ DictHas(jobs_storage, b) => jobs_storage'.at[b] = jobs_storage.at[b]
          /\ (a = b /\ DictHas(jobs_storage, a) /\ DictHas(jobs_storage', a))
             => /\ jobs_storage'.at[a].job_id = jobs_storage.at[a].job_id
                /\ jobs_storage.at[a].job_id = a
                /\ jobs_storage'.at[a].created_at = jobs_storage.at[a].created_at]_vars

\* The task of one job has written its results while another job, created
\* before it, is still queued with the record its creation gave it.
C31_Witness ==
    \E a, b \in JobIds :
        /\ a # b
        /\ pc[a] = "finally"
        /\ JobStatus(a) = "completed"
        /\ JobStatus(b) = "queued"
        /\ jobs_storage.keys = <<b, a>>
        /\ ~HasResults(jobs_storage.at[b])
        /\ jobs_storage.at[b].completed_at = None

====
